---- MODULE Spec2Model ----
(***************************************************************************)
(* A model of nannou's deferred drawing core (nannou/src/draw/mod.rs):     *)
(* the shared State behind every Draw handle, the Context each handle      *)
(* carries, the primitive lifecycle (a / finish_drawing /                  *)
(* finish_remaining_drawings), reset and drain_commands; and of the two    *)
(* replays of the drained commands: to_svg (draw/svg_renderer/mod.rs) with *)
(* the SVG render capabilities of the primitives, and the mesh renderer    *)
(* with Line's mesh capability (draw/primitive/line.rs).                   *)
(*                                                                         *)
(* Rust's Option<T> is modelled as a sequence of length 0 (None) or 1      *)
(* (Some(x)).  Vec indices are 0-based as in the source: slot i of         *)
(* draw_commands is draw_commands[i + 1] here.                             *)
(***************************************************************************)
EXTENDS Integers, Sequences, FiniteSets, TLC

\* Bounds of the model.
MaxShapes == 2      \* a() calls in one behaviour
MaxCoord == 2       \* scissor rectangles have corners in 0..MaxCoord

VARIABLES
    last_draw_context,  \* State::last_draw_context : Option<Context>
    background_color,   \* State::background_color  : Option<LinSrgba>
    drawing,            \* State::drawing           : HashMap<usize, Primitive>
    draw_commands,      \* State::draw_commands     : Vec<Option<DrawCommand>>
    intermediary_state, \* State::intermediary_state
    handles,            \* the Context of each Draw handle the caller holds
    started,            \* history: number of a() calls so far (primitive ids)
    origin,             \* history: id in the buffer -> Context of the handle that started it
    delivered,          \* history: id -> times it was yielded by a drain
    discarded,          \* history: ids that a reset() removed from the buffer
    returned,           \* the sequence the last drain_commands() returned
    drained,            \* history: a drain happened since creation or the last reset()
    document,           \* the elements of the Document the last to_svg() built
    mesh,               \* the vertex and index counts of the renderer's Mesh
    mesh_log,           \* history: the Mesh after each Primitive command of the last to_frame()
    panicked,           \* a render capability has panicked: the program is gone
    last_op,            \* history: the last call, its index, the keys pending before it
    last_arg            \* history: the rectangle or matrix given to the last scissor() or transform()

stateVars == <<last_draw_context, background_color, drawing, draw_commands,
               intermediary_state>>
histVars == <<started, origin, delivered, discarded, returned, drained>>
outVars == <<document, mesh, mesh_log, panicked>>
vars == <<last_draw_context, background_color, drawing, draw_commands,
          intermediary_state, handles, started, origin, delivered, discarded,
          returned, drained, document, mesh, mesh_log, panicked, last_op, last_arg>>

----------------------------------------------------------------------------
\* Option<T>
NoneV == <<>>
Some(x) == <<x>>
IsSome(o) == Len(o) = 1
Unwrap(o) == o[1]

\* HashMap<usize, Primitive>
EmptyMap == [i \in {} |-> 0]
MapInsert(m, k, v) == [i \in (DOMAIN m) \cup {k} |-> IF i = k THEN v ELSE m[i]]
MapRemove(m, k) == [i \in (DOMAIN m) \ {k} |-> m[i]]

----------------------------------------------------------------------------
\* Context and its fields.
Identity == <<<<1, 0, 0, 0>>, <<0, 1, 0, 0>>, <<0, 0, 1, 0>>, <<0, 0, 0, 1>>>>

Topologies == {"TriangleList", "LineList", "PointList"}

Scissor_Full == [tag |-> "Full"]
Scissor_Rect(r) == [tag |-> "Rect", rect |-> r]
Scissor_NoOverlap == [tag |-> "NoOverlap"]

Context_default ==
    [transform |-> Identity,
     alpha_blend |-> "DEFAULT_ALPHA_BLEND",
     color_blend |-> "DEFAULT_COLOR_BLEND",
     scissor |-> Scissor_Full,
     topology |-> "TriangleList",
     sampler |-> "DEFAULT_SAMPLER"]

\* geom::Rect: an x range and a y range, each with start <= end.
Ranges == {r \in [start : 0..MaxCoord, end : 0..MaxCoord] : r.start <= r.end}
Rects == [x : Ranges, y : Ranges]
NoRect == [x |-> [start |-> 0, end |-> 0], y |-> [start |-> 0, end |-> 0]]

Max2(a, b) == IF a >= b THEN a ELSE b
Min2(a, b) == IF a <= b THEN a ELSE b

\* geom::Range::overlap and geom::Rect::overlap: the geometric intersection,
\* None when the two do not meet.
Range_overlap(r, o) ==
    LET s == Max2(r.start, o.start)
        e == Min2(r.end, o.end)
    IN  IF e - s >= 0 THEN Some([start |-> s, end |-> e]) ELSE NoneV

Rect_overlap(r, o) ==
    LET ox == Range_overlap(r.x, o.x)
        oy == Range_overlap(r.y, o.y)
    IN  IF IsSome(ox) /\ IsSome(oy)
        THEN Some([x |-> Unwrap(ox), y |-> Unwrap(oy)])
        ELSE NoneV

----------------------------------------------------------------------------
\* DrawCommand
DrawCommand_Primitive(p) == [tag |-> "Primitive", prim |-> p]
DrawCommand_Context(c) == [tag |-> "Context", ctx |-> c]

\* A primitive as a() receives it from a shape constructor: its variant, the
\* builder value (0 is the default), for Text its range in text_buffer, its
\* colour (None until set), for Line its start and end (None until set),
\* for the shapes with dimensions their x, y and z (None until set) and for
\* Ellipse its resolution (None until set).
\* id is the history name of the value (the number of its a() call).
dimension_Properties_default == [x |-> NoneV, y |-> NoneV, z |-> NoneV]
Primitive(id, kind, txt) ==
    [id |-> id, kind |-> kind, cfg |-> 0, text |-> txt,
     color |-> NoneV, start |-> NoneV, end |-> NoneV,
     dimensions |-> dimension_Properties_default, resolution |-> NoneV]

\* draw::Mesh, as far as a replay is observed: its vertex and index counts.
Mesh_default == [vertices |-> 0, indices |-> 0]

\* The inputs of the calls: the variants the shape constructors start, the
\* strings given to text(), the values a builder method sets (0 is the
\* default) and the background colours.
ShapeKinds == {"Rect"}
Texts == {<<"a">>}
Cfgs == {0, 1}
Colors == {"CORNFLOWERBLUE"}

IntermediaryState_default ==
    [intermediary_mesh |-> <<>>,
     path_event_buffer |-> <<>>,
     path_points_colored_buffer |-> <<>>,
     path_points_textured_buffer |-> <<>>,
     text_buffer |-> <<>>]

\* Mutant: a new State already remembers the default Context.
State_default_with_context ==
    [last_draw_context |-> Some(Context_default),
     background_color |-> NoneV,
     drawing |-> EmptyMap,
     draw_commands |-> <<>>,
     intermediary_state |-> IntermediaryState_default]

\* impl Default for State
State_default ==
    [last_draw_context |-> NoneV,
     background_color |-> NoneV,
     drawing |-> EmptyMap,
     draw_commands |-> <<>>,
     intermediary_state |-> IntermediaryState_default]

\* The State as one value.
State ==
    [last_draw_context |-> last_draw_context,
     background_color |-> background_color,
     drawing |-> drawing,
     draw_commands |-> draw_commands,
     intermediary_state |-> intermediary_state]

\* The Draw handles the caller holds: 1 is the root, 2 a derived handle.
Handles == {1, 2}
Ids == 1..MaxShapes
\* Indices a Drawing may hold: every slot a() can reserve, and one beyond.
Indices == 0..(2 * MaxShapes)

\* The record of a call: its name, the handle a context operation was called
\* on (0 otherwise), its index (the slot of a(), finish_drawing and the
\* builder methods, the handle a context operation returns, -1 otherwise)
\* and the keys of drawing before the call.
Op(name, h, index) == [name |-> name, h |-> h, index |-> index, pending |-> DOMAIN drawing]

Init ==
    /\ last_draw_context = State_default.last_draw_context
    /\ background_color = State_default.background_color
    /\ drawing = State_default.drawing
    /\ draw_commands = State_default.draw_commands
    /\ intermediary_state = State_default.intermediary_state
    /\ handles = [h \in Handles |-> Context_default]
    /\ started = 0
    /\ origin = [id \in Ids |-> Context_default]
    /\ delivered = [id \in Ids |-> 0]
    /\ discarded = {}
    /\ returned = <<>>
    /\ drained = FALSE
    /\ document = <<>>
    /\ mesh = Mesh_default
    /\ mesh_log = <<>>
    /\ panicked = FALSE
    /\ last_op = [name |-> "new", h |-> 0, index |-> -1, pending |-> {}]
    /\ last_arg = NoRect

----------------------------------------------------------------------------
\* State's operations, as functions of the fields they read and write.

\* Mutant: text_buffer.clear() is forgotten.
IntermediaryState_reset_keeps_text(is) ==
    [intermediary_mesh |-> <<>>,
     path_event_buffer |-> <<>>,
     path_points_colored_buffer |-> <<>>,
     path_points_textured_buffer |-> <<>>,
     text_buffer |-> is.text_buffer]

\* IntermediaryState::reset
IntermediaryState_reset(is) ==
    [intermediary_mesh |-> <<>>,
     path_event_buffer |-> <<>>,
     path_points_colored_buffer |-> <<>>,
     path_points_textured_buffer |-> <<>>,
     text_buffer |-> <<>>]

\* Mutant: reset clears the pending map and leaves the commands in place.
State_reset_keeps_commands(st) ==
    [last_draw_context |-> NoneV,
     background_color |-> NoneV,
     drawing |-> EmptyMap,
     draw_commands |-> st.draw_commands,
     intermediary_state |-> IntermediaryState_reset(st.intermediary_state)]

\* State::reset
State_reset(st) ==
    [last_draw_context |-> NoneV,
     background_color |-> NoneV,
     drawing |-> EmptyMap,
     draw_commands |-> <<>>,
     intermediary_state |-> IntermediaryState_reset(st.intermediary_state)]

\* Mutant: the primitive is never written into its slot.
insert_draw_command_lost(cmds, index, prim) == cmds

\* Mutant: the primitive is pushed at the end instead of written into its slot.
insert_draw_command_pushed(cmds, index, prim) ==
    Append(cmds, Some(DrawCommand_Primitive(prim)))

\* Mutant: the primitive is written into the first slot that is still None.
insert_draw_command_first_none(cmds, index, prim) ==
    LET free == {k \in 1..Len(cmds) : cmds[k] = NoneV}
    IN  IF free # {}
        THEN LET first == CHOOSE k \in free : \A j \in free : k <= j
             IN  [cmds EXCEPT ![first] = Some(DrawCommand_Primitive(prim))]
        ELSE cmds

\* Mutant: the primitive is written into the last slot of the buffer.
insert_draw_command_last(cmds, index, prim) ==
    IF cmds # <<>>
    THEN [cmds EXCEPT ![Len(cmds)] = Some(DrawCommand_Primitive(prim))]
    ELSE cmds

\* State::insert_draw_command: write the primitive into its slot when the
\* slot exists (Vec::get_mut), do nothing otherwise.
insert_draw_command(cmds, index, prim) ==
    IF index < Len(cmds)
    THEN [cmds EXCEPT ![index + 1] = Some(DrawCommand_Primitive(prim))]
    ELSE cmds

\* Mutant: the entry is read (HashMap::get) and stays in the map.
State_finish_drawing_kept(cmds, drw, index) ==
    IF index \in DOMAIN drw
    THEN [draw_commands |-> insert_draw_command(cmds, index, drw[index]),
          drawing |-> drw]
    ELSE [draw_commands |-> cmds, drawing |-> drw]

\* Mutant: an index that is not pending has its slot emptied.
State_finish_drawing_cleared(cmds, drw, index) ==
    IF index \in DOMAIN drw
    THEN [draw_commands |-> insert_draw_command(cmds, index, drw[index]),
          drawing |-> MapRemove(drw, index)]
    ELSE [draw_commands |-> IF index < Len(cmds)
                            THEN [cmds EXCEPT ![index + 1] = NoneV]
                            ELSE cmds,
          drawing |-> drw]

\* State::finish_drawing
State_finish_drawing(cmds, drw, index) ==
    IF index \in DOMAIN drw
    THEN [draw_commands |-> insert_draw_command(cmds, index, drw[index]),
          drawing |-> MapRemove(drw, index)]
    ELSE [draw_commands |-> cmds, drawing |-> drw]

\* The orders in which HashMap::drain may yield the keys S.
Orders(S) ==
    {o \in [1..Cardinality(S) -> S] : \A i, j \in 1..Cardinality(S) : o[i] = o[j] => i = j}

\* Mutant: the loop stops after its first entry.
insert_all_first(cmds, drw, order) ==
    IF order = <<>>
    THEN cmds
    ELSE insert_draw_command(cmds, order[1], drw[order[1]])

\* The loop of State::finish_remaining_drawings over the drained entries.
RECURSIVE insert_all(_, _, _)
insert_all(cmds, drw, order) ==
    IF order = <<>>
    THEN cmds
    ELSE insert_all(insert_draw_command(cmds, order[1], drw[order[1]]), drw, Tail(order))

\* Mutant: the map is emptied without inserting its entries.
State_finish_remaining_drawings_dropped(cmds, drw, order) ==
    [draw_commands |-> cmds, drawing |-> EmptyMap]

\* State::finish_remaining_drawings: the map is taken out, each entry is
\* inserted, and the drained (empty) map is swapped back in.
State_finish_remaining_drawings(cmds, drw, order) ==
    [draw_commands |-> insert_all(cmds, drw, order),
     drawing |-> EmptyMap]

\* Mutant: every a() emits a context command.
context_changed_always(last, ctx) == TRUE

\* Mutant: only the first a() of a session emits a context command.
context_changed_first_only(last, ctx) == last = NoneV

\* The comparison of Draw::a: does the handle's context differ from the
\* last one a command was emitted for?
context_changed(last, ctx) == last # Some(ctx)

\* Iterator::filter_map(|opt| opt) over the drained Vec.
RECURSIVE filter_map(_)
filter_map(cmds) ==
    IF cmds = <<>>
    THEN <<>>
    ELSE IF IsSome(Head(cmds))
         THEN <<Unwrap(Head(cmds))>> \o filter_map(Tail(cmds))
         ELSE filter_map(Tail(cmds))

\* Mutant: the commands are cloned out and stay in the buffer.
replaced_commands_kept(cmds) == cmds

\* mem::replace(&mut state.draw_commands, empty): the new buffer.
replaced_commands(cmds) == <<>>

\* Text::new(ctxt, s): s is pushed onto the text buffer and the primitive
\* keeps the range it occupies there.
Text_new(buf, s) == [buffer |-> buf \o s, range |-> <<Len(buf), Len(buf) + Len(s)>>]

----------------------------------------------------------------------------
\* History bookkeeping.
PrimIds(cmdseq) ==
    {k \in 1..Len(cmdseq) : cmdseq[k].tag = "Primitive"}
Count(cmdseq, id) ==
    Cardinality({k \in PrimIds(cmdseq) : cmdseq[k].prim.id = id})
IdsInBuffer ==
    {drawing[i].id : i \in DOMAIN drawing}
    \cup {Unwrap(draw_commands[k]).prim.id :
            k \in {j \in 1..Len(draw_commands) :
                     IsSome(draw_commands[j]) /\ Unwrap(draw_commands[j]).tag = "Primitive"}}

----------------------------------------------------------------------------
\* The RefCells behind a Draw: state (Rc<RefCell<State>>) and, inside it,
\* intermediary_state.  A borrow flag is 0 when the cell is unused, n > 0
\* under n shared borrows and -1 under a mutable borrow.
RefCell_unused == [state |-> 0, intermediary_state |-> 0]
borrow(cell) == [cell |-> cell, op |-> "borrow"]
borrow_mut(cell) == [cell |-> cell, op |-> "borrow_mut"]
drop_Ref(cell) == [cell |-> cell, op |-> "drop_Ref"]
drop_RefMut(cell) == [cell |-> cell, op |-> "drop_RefMut"]

\* Does a call that takes and drops borrows in this order panic
\* (BorrowError / BorrowMutError)?
RECURSIVE RefCell_panics(_, _)
RefCell_panics(events, flags) ==
    IF events = <<>>
    THEN FALSE
    ELSE LET e == Head(events)
             f == flags[e.cell]
         IN  CASE e.op = "borrow" ->
                    IF f < 0 THEN TRUE
                    ELSE RefCell_panics(Tail(events), [flags EXCEPT ![e.cell] = f + 1])
               [] e.op = "borrow_mut" ->
                    IF f # 0 THEN TRUE
                    ELSE RefCell_panics(Tail(events), [flags EXCEPT ![e.cell] = -1])
               [] e.op = "drop_Ref" ->
                    RefCell_panics(Tail(events), [flags EXCEPT ![e.cell] = f - 1])
               [] e.op = "drop_RefMut" ->
                    RefCell_panics(Tail(events), [flags EXCEPT ![e.cell] = 0])

\* The borrows each call takes and drops, in order.
\* Draw::a: state.borrow_mut() in the block that computes index.
Borrows_a == <<borrow_mut("state"), drop_RefMut("state")>>
\* Mutant: self.a(text) is called inside the block that borrows the state.
Borrows_text_inside ==
    <<borrow("state"), borrow_mut("intermediary_state"),
      drop_RefMut("intermediary_state")>> \o Borrows_a \o <<drop_Ref("state")>>
\* Draw::text: a block with state.borrow() and
\* intermediary_state.borrow_mut(), then self.a(text).
Borrows_text ==
    <<borrow("state"), borrow_mut("intermediary_state"),
      drop_RefMut("intermediary_state"), drop_Ref("state")>> \o Borrows_a
\* Mutant: reset lets go of the state before it clears the scratch buffers.
Borrows_reset_released ==
    <<borrow_mut("state"), drop_RefMut("state"), borrow_mut("intermediary_state"),
      drop_RefMut("intermediary_state")>>
\* Draw::reset: state.borrow_mut().reset(), which takes
\* intermediary_state.borrow_mut().
Borrows_reset ==
    <<borrow_mut("state"), borrow_mut("intermediary_state"),
      drop_RefMut("intermediary_state"), drop_RefMut("state")>>
\* Draw::finish_remaining_drawings: state.borrow_mut() for the one call.
Borrows_finish_remaining_drawings == <<borrow_mut("state"), drop_RefMut("state")>>
\* Draw::drain_commands: finish_remaining_drawings(), then
\* state.borrow_mut() in the block that swaps the buffer.
Borrows_drain_commands ==
    Borrows_finish_remaining_drawings \o <<borrow_mut("state"), drop_RefMut("state")>>
\* State::finish_drawing(&mut self, index), as a Drawing calls it.
Borrows_finish_drawing == <<borrow_mut("state"), drop_RefMut("state")>>

\* The outcome of a call with these borrows: a panic if one of them fails;
\* no backend is involved.
Call(events) ==
    /\ panicked' = (panicked \/ RefCell_panics(events, RefCell_unused))
    /\ UNCHANGED <<document, mesh, mesh_log>>

----------------------------------------------------------------------------
\* The operations of Draw.

\* Mutant: the context is written into the one place every handle reads.
context_shared(dst, ctx) ==
    /\ dst \in Handles \ {1}
    /\ handles' = [g \in Handles |-> ctx]

\* Draw::context: a new handle on the same state with the given context.
\* The caller binds it to handle variable dst; the root (handle 1) is kept.
context(dst, ctx) ==
    /\ dst \in Handles \ {1}
    /\ handles' = [handles EXCEPT ![dst] = ctx]

\* Mutant: a Rect scissor is replaced by the new rectangle, not intersected.
Draw_scissor_replaced(ctx, rect) ==
    [ctx EXCEPT !.scissor =
        CASE ctx.scissor.tag = "Full" -> Scissor_Rect(rect)
          [] ctx.scissor.tag = "Rect" -> Scissor_Rect(rect)
          [] ctx.scissor.tag = "NoOverlap" -> Scissor_NoOverlap]

\* Draw::scissor: the context cropped to the given rectangle.
Draw_scissor(ctx, rect) ==
    [ctx EXCEPT !.scissor =
        CASE ctx.scissor.tag = "Full" -> Scissor_Rect(rect)
          [] ctx.scissor.tag = "Rect" ->
                LET o == Rect_overlap(ctx.scissor.rect, rect)
                IN  IF IsSome(o) THEN Scissor_Rect(Unwrap(o)) ELSE Scissor_NoOverlap
          [] ctx.scissor.tag = "NoOverlap" -> Scissor_NoOverlap]

scissor(h, dst, rect) ==
    /\ context(dst, Draw_scissor(handles[h], rect))
    /\ last_op' = Op("scissor", h, dst)
    /\ last_arg' = rect
    /\ UNCHANGED stateVars
    /\ UNCHANGED histVars
    /\ UNCHANGED outVars

\* Draw::primitive_topology
primitive_topology(h, dst, topology) ==
    /\ context(dst, [handles[h] EXCEPT !.topology = topology])
    /\ UNCHANGED stateVars
    /\ UNCHANGED histVars
    /\ UNCHANGED outVars

\* Mutant: line_mode switches the wireframe off when it is already on.
line_mode_toggle(h, dst) ==
    /\ primitive_topology(h, dst, IF handles[h].topology = "LineList"
                                  THEN "TriangleList" ELSE "LineList")
    /\ last_op' = Op("line_mode", h, dst)
    /\ last_arg' = NoRect

line_mode(h, dst) ==
    /\ primitive_topology(h, dst, "LineList")
    /\ last_op' = Op("line_mode", h, dst)
    /\ last_arg' = NoRect

point_mode(h, dst) ==
    /\ primitive_topology(h, dst, "PointList")
    /\ last_op' = Op("point_mode", h, dst)
    /\ last_arg' = NoRect

triangle_mode(h, dst) ==
    /\ primitive_topology(h, dst, "TriangleList")
    /\ last_op' = Op("triangle_mode", h, dst)
    /\ last_arg' = NoRect

\* Matrix4 as its four rows; A * B is the matrix product.
Mat_entry(A, B, i, j) ==
    A[i][1] * B[1][j] + A[i][2] * B[2][j] + A[i][3] * B[3][j] + A[i][4] * B[4][j]
Mat_row(A, B, i) ==
    <<Mat_entry(A, B, i, 1), Mat_entry(A, B, i, 2), Mat_entry(A, B, i, 3),
      Mat_entry(A, B, i, 4)>>
Mat_mul(A, B) ==
    <<Mat_row(A, B, 1), Mat_row(A, B, 2), Mat_row(A, B, 3), Mat_row(A, B, 4)>>

\* The matrices given to transform(): a quarter turn about z and a mirror
\* of the x axis.  They do not commute.
Rot90z == <<<<0, -1, 0, 0>>, <<1, 0, 0, 0>>, <<0, 0, 1, 0>>, <<0, 0, 0, 1>>>>
MirrorX == <<<<-1, 0, 0, 0>>, <<0, 1, 0, 0>>, <<0, 0, 1, 0>>, <<0, 0, 0, 1>>>>
Matrices == {Rot90z, MirrorX}
\* The descriptors given to alpha_blend(), color_blend(), blend(), sampler()
\* and the rectangle given to scissor() where handles derive handles.
BlendDescriptors == {"BLEND_ADD"}
SamplerDescriptors == {"NEAREST"}
ClipRects == {[x |-> [start |-> 0, end |-> 1], y |-> [start |-> 0, end |-> 1]]}

\* Mutant: the given matrix is multiplied from the left.
Draw_transform_premultiplied(ctx, transform_matrix) ==
    [ctx EXCEPT !.transform = Mat_mul(transform_matrix, ctx.transform)]

\* Draw::transform: context.transform * transform_matrix.
Draw_transform(ctx, transform_matrix) ==
    [ctx EXCEPT !.transform = Mat_mul(ctx.transform, transform_matrix)]

transform(h, dst, transform_matrix) ==
    /\ context(dst, Draw_transform(handles[h], transform_matrix))
    /\ last_op' = Op("transform", h, dst)
    /\ last_arg' = transform_matrix
    /\ UNCHANGED stateVars
    /\ UNCHANGED histVars
    /\ UNCHANGED outVars

\* Matrix4::from_translation
from_translation(v) ==
    <<<<1, 0, 0, v[1]>>, <<0, 1, 0, v[2]>>, <<0, 0, 1, v[3]>>, <<0, 0, 0, 1>>>>

\* Draw::translate
Draw_translate(ctx, v) == Draw_transform(ctx, from_translation(v))

translate(h, dst, v) ==
    /\ context(dst, Draw_translate(handles[h], v))
    /\ last_op' = Op("translate", h, dst)
    /\ last_arg' = from_translation(v)
    /\ UNCHANGED stateVars
    /\ UNCHANGED histVars
    /\ UNCHANGED outVars

\* Matrix4::from_nonuniform_scale
from_nonuniform_scale(x, y, z) ==
    <<<<x, 0, 0, 0>>, <<0, y, 0, 0>>, <<0, 0, z, 0>>, <<0, 0, 0, 1>>>>

\* Draw::scale_axes
Draw_scale_axes(ctx, v) == Draw_transform(ctx, from_nonuniform_scale(v[1], v[2], v[3]))

scale_axes(h, dst, v) ==
    /\ context(dst, Draw_scale_axes(handles[h], v))
    /\ last_op' = Op("scale_axes", h, dst)
    /\ last_arg' = v
    /\ UNCHANGED stateVars
    /\ UNCHANGED histVars
    /\ UNCHANGED outVars

\* Draw::scale: scale_axes(vec3(s, s, s)).
scale(h, dst, sc) ==
    /\ context(dst, Draw_scale_axes(handles[h], <<sc, sc, sc>>))
    /\ last_op' = Op("scale", h, dst)
    /\ last_arg' = sc
    /\ UNCHANGED stateVars
    /\ UNCHANGED histVars
    /\ UNCHANGED outVars

\* Draw::scale_x: scale_axes(vec3(s, S::zero(), S::zero())).
scale_x(h, dst, sc) ==
    /\ context(dst, Draw_scale_axes(handles[h], <<sc, 0, 0>>))
    /\ last_op' = Op("scale_x", h, dst)
    /\ last_arg' = sc
    /\ UNCHANGED stateVars
    /\ UNCHANGED histVars
    /\ UNCHANGED outVars

\* Draw::scale_y: scale_axes(vec3(S::zero(), s, S::zero())).
scale_y(h, dst, sc) ==
    /\ context(dst, Draw_scale_axes(handles[h], <<0, sc, 0>>))
    /\ last_op' = Op("scale_y", h, dst)
    /\ last_arg' = sc
    /\ UNCHANGED stateVars
    /\ UNCHANGED histVars
    /\ UNCHANGED outVars

\* Draw::scale_z: scale_axes(vec3(S::zero(), S::zero(), s)).
scale_z(h, dst, sc) ==
    /\ context(dst, Draw_scale_axes(handles[h], <<0, 0, sc>>))
    /\ last_op' = Op("scale_z", h, dst)
    /\ last_arg' = sc
    /\ UNCHANGED stateVars
    /\ UNCHANGED histVars
    /\ UNCHANGED outVars

\* Draw::alpha_blend
alpha_blend(h, dst, blend_descriptor) ==
    /\ context(dst, [handles[h] EXCEPT !.alpha_blend = blend_descriptor])
    /\ last_op' = Op("alpha_blend", h, dst)
    /\ last_arg' = NoRect
    /\ UNCHANGED stateVars
    /\ UNCHANGED histVars
    /\ UNCHANGED outVars

\* Draw::color_blend
Draw_color_blend(h, dst, blend_descriptor) ==
    /\ context(dst, [handles[h] EXCEPT !.color_blend = blend_descriptor])
    /\ last_arg' = NoRect
    /\ UNCHANGED stateVars
    /\ UNCHANGED histVars
    /\ UNCHANGED outVars

color_blend(h, dst, blend_descriptor) ==
    /\ Draw_color_blend(h, dst, blend_descriptor)
    /\ last_op' = Op("color_blend", h, dst)

\* Draw::blend: short-hand for color_blend.
blend(h, dst, blend_descriptor) ==
    /\ Draw_color_blend(h, dst, blend_descriptor)
    /\ last_op' = Op("blend", h, dst)

\* Draw::sampler
sampler(h, dst, desc) ==
    /\ context(dst, [handles[h] EXCEPT !.sampler = desc])
    /\ last_op' = Op("sampler", h, dst)
    /\ last_arg' = NoRect
    /\ UNCHANGED stateVars
    /\ UNCHANGED histVars
    /\ UNCHANGED outVars

\* Mutant: the command is compared and tagged with the root's Context, not
\* with the Context of the handle a() was called on.
a_root_context(h, primitive) ==
    /\ started < MaxShapes
    /\ LET ctx == handles[1]
           changed == context_changed(last_draw_context, ctx)
           cmds == IF changed
                   THEN Append(draw_commands, Some(DrawCommand_Context(ctx)))
                   ELSE draw_commands
           index == Len(cmds)
       IN  /\ last_draw_context' = IF changed THEN Some(ctx) ELSE last_draw_context
           /\ draw_commands' = Append(cmds, NoneV)
           /\ drawing' = MapInsert(drawing, index, primitive)
           /\ last_op' = Op("a", 0, index)
           /\ origin' = [origin EXCEPT ![primitive.id] = handles[h]]
    /\ started' = started + 1
    /\ last_arg' = NoRect
    /\ UNCHANGED <<background_color, handles, delivered, discarded, returned, drained>>

\* Mutant: the index is read before the ContextChange is pushed.
a_index_before_push(h, primitive) ==
    /\ started < MaxShapes
    /\ LET ctx == handles[h]
           changed == context_changed(last_draw_context, ctx)
           cmds == IF changed
                   THEN Append(draw_commands, Some(DrawCommand_Context(ctx)))
                   ELSE draw_commands
           index == Len(draw_commands)
       IN  /\ last_draw_context' = IF changed THEN Some(ctx) ELSE last_draw_context
           /\ draw_commands' = Append(cmds, NoneV)
           /\ drawing' = MapInsert(drawing, index, primitive)
           /\ last_op' = Op("a", 0, index)
           /\ origin' = [origin EXCEPT ![primitive.id] = ctx]
    /\ started' = started + 1
    /\ last_arg' = NoRect
    /\ UNCHANGED <<background_color, handles, delivered, discarded, returned, drained>>

\* Draw::a, the entry point of every shape constructor.
a(h, primitive) ==
    /\ started < MaxShapes
    /\ LET ctx == handles[h]
           changed == context_changed(last_draw_context, ctx)
           cmds == IF changed
                   THEN Append(draw_commands, Some(DrawCommand_Context(ctx)))
                   ELSE draw_commands
           index == Len(cmds)
       IN  /\ last_draw_context' = IF changed THEN Some(ctx) ELSE last_draw_context
           /\ draw_commands' = Append(cmds, NoneV)
           /\ drawing' = MapInsert(drawing, index, primitive)
           /\ last_op' = Op("a", 0, index)
           /\ origin' = [origin EXCEPT ![primitive.id] = ctx]
    /\ started' = started + 1
    /\ last_arg' = NoRect
    /\ UNCHANGED <<background_color, handles, delivered, discarded, returned, drained>>

\* Draw::rect, Draw::line, ...: a(Default::default()).
shape(h, kind) ==
    /\ a(h, Primitive(started + 1, kind, <<0, 0>>))
    /\ Call(Borrows_a)
    /\ UNCHANGED intermediary_state

\* Draw::text
text(h, s) ==
    LET t == Text_new(intermediary_state.text_buffer, s)
    IN  /\ intermediary_state' = [intermediary_state EXCEPT !.text_buffer = t.buffer]
        /\ a(h, Primitive(started + 1, "Text", t.range))
        /\ Call(Borrows_text)

\* A builder method of a Drawing bound to slot index (radius, points, ...):
\* the pending primitive is mapped and put back; nothing is finalized.
Drawing_map_primitive(index, v) ==
    /\ index \in DOMAIN drawing
    /\ drawing[index].cfg # v
    /\ drawing' = [drawing EXCEPT ![index].cfg = v]
    /\ last_op' = Op("map_primitive", 0, index)
    /\ last_arg' = NoRect
    /\ UNCHANGED <<last_draw_context, background_color, draw_commands, intermediary_state,
                   handles>>
    /\ UNCHANGED histVars
    /\ UNCHANGED outVars

\* Draw::background().color(c)
background(color) ==
    /\ background_color' = Some(color)
    /\ last_op' = Op("background", 0, -1)
    /\ last_arg' = NoRect
    /\ UNCHANGED <<last_draw_context, drawing, draw_commands, intermediary_state, handles>>
    /\ UNCHANGED histVars
    /\ UNCHANGED outVars

\* State::finish_drawing, as a Drawing (or its drop) calls it.
finish_drawing(index) ==
    /\ LET st == State_finish_drawing(draw_commands, drawing, index)
       IN  /\ draw_commands' = st.draw_commands
           /\ drawing' = st.drawing
    /\ last_op' = Op("finish_drawing", 0, index)
    /\ last_arg' = NoRect
    /\ Call(Borrows_finish_drawing)
    /\ UNCHANGED <<last_draw_context, background_color, intermediary_state, handles>>
    /\ UNCHANGED histVars

\* Mutant: the flush hands the buffer over as drain_commands does.
finish_remaining_drawings_draining ==
    /\ \E order \in Orders(DOMAIN drawing) :
         LET st == State_finish_remaining_drawings(draw_commands, drawing, order)
         IN  /\ draw_commands' = replaced_commands(st.draw_commands)
             /\ drawing' = st.drawing
    /\ last_op' = Op("finish_remaining_drawings", 0, -1)
    /\ last_arg' = NoRect
    /\ Call(Borrows_finish_remaining_drawings)
    /\ UNCHANGED <<last_draw_context, background_color, intermediary_state, handles>>
    /\ UNCHANGED histVars

\* Draw::finish_remaining_drawings
finish_remaining_drawings ==
    /\ \E order \in Orders(DOMAIN drawing) :
         LET st == State_finish_remaining_drawings(draw_commands, drawing, order)
         IN  /\ draw_commands' = st.draw_commands
             /\ drawing' = st.drawing
    /\ last_op' = Op("finish_remaining_drawings", 0, -1)
    /\ last_arg' = NoRect
    /\ Call(Borrows_finish_remaining_drawings)
    /\ UNCHANGED <<last_draw_context, background_color, intermediary_state, handles>>
    /\ UNCHANGED histVars

\* Mutant: the drain swaps the buffer without finalizing what is pending.
Draw_drain_commands_unflushed ==
    /\ draw_commands' = replaced_commands(draw_commands)
    /\ drawing' = drawing
    /\ returned' = filter_map(draw_commands)
    /\ delivered' = [id \in Ids |-> delivered[id] + Count(returned', id)]
    /\ origin' = [id \in Ids |-> Context_default]
    /\ drained' = TRUE
    /\ UNCHANGED <<last_draw_context, background_color, intermediary_state, handles,
                   started, discarded>>

\* Mutant: the drain also forgets the last Context a() recorded.
Draw_drain_commands_forgetting ==
    /\ \E order \in Orders(DOMAIN drawing) :
         LET st == State_finish_remaining_drawings(draw_commands, drawing, order)
             cmds == st.draw_commands
         IN  /\ draw_commands' = replaced_commands(cmds)
             /\ drawing' = st.drawing
             /\ returned' = filter_map(cmds)
    /\ last_draw_context' = NoneV
    /\ delivered' = [id \in Ids |-> delivered[id] + Count(returned', id)]
    /\ origin' = [id \in Ids |-> Context_default]
    /\ drained' = TRUE
    /\ UNCHANGED <<background_color, intermediary_state, handles, started, discarded>>

\* Draw::drain_commands, whoever calls it: returned is the sequence the
\* caller iterates.
Draw_drain_commands ==
    /\ \E order \in Orders(DOMAIN drawing) :
         LET st == State_finish_remaining_drawings(draw_commands, drawing, order)
             cmds == st.draw_commands
         IN  /\ draw_commands' = replaced_commands(cmds)
             /\ drawing' = st.drawing
             /\ returned' = filter_map(cmds)
    /\ delivered' = [id \in Ids |-> delivered[id] + Count(returned', id)]
    /\ origin' = [id \in Ids |-> Context_default]
    /\ drained' = TRUE
    /\ UNCHANGED <<last_draw_context, background_color, intermediary_state, handles,
                   started, discarded>>

\* Draw::drain_commands called by the user of the Draw.
drain_commands ==
    /\ Draw_drain_commands
    /\ last_op' = Op("drain_commands", 0, -1)
    /\ last_arg' = NoRect
    /\ Call(Borrows_drain_commands)

\* SetColor::color on a Drawing: the pending primitive gets the colour.
Drawing_color(index, color) ==
    /\ index \in DOMAIN drawing
    /\ drawing[index].color # Some(color)
    /\ drawing' = [drawing EXCEPT ![index].color = Some(color)]
    /\ last_op' = Op("color", 0, index)
    /\ last_arg' = NoRect
    /\ UNCHANGED <<last_draw_context, background_color, draw_commands, intermediary_state,
                   handles>>
    /\ UNCHANGED histVars
    /\ UNCHANGED outVars

\* Line::points
\* SetDimensions::depth on a shape with dimensions: its z is set.
SetDimensions_depth(prim, d) == [prim EXCEPT !.dimensions.z = Some(d)]

Drawing_depth(index, d) ==
    /\ index \in DOMAIN drawing
    /\ drawing[index].kind \in {"Ellipse", "Rect", "Quad"}
    /\ drawing[index] # SetDimensions_depth(drawing[index], d)
    /\ drawing' = [drawing EXCEPT ![index] = SetDimensions_depth(drawing[index], d)]
    /\ last_op' = Op("depth", 0, index)
    /\ last_arg' = NoRect
    /\ UNCHANGED <<last_draw_context, background_color, draw_commands, intermediary_state,
                   handles>>
    /\ UNCHANGED histVars
    /\ UNCHANGED outVars

\* Ellipse::radius: w_h(side, side) with side = radius * 2.
Ellipse_radius(ellipse, radius) ==
    LET side == radius * (1 + 1)
    IN  [ellipse EXCEPT !.dimensions.x = Some(side), !.dimensions.y = Some(side)]

DrawingEllipse_radius(index, radius) ==
    /\ index \in DOMAIN drawing
    /\ drawing[index].kind = "Ellipse"
    /\ drawing[index] # Ellipse_radius(drawing[index], radius)
    /\ drawing' = [drawing EXCEPT ![index] = Ellipse_radius(drawing[index], radius)]
    /\ last_op' = Op("radius", 0, index)
    /\ last_arg' = NoRect
    /\ UNCHANGED <<last_draw_context, background_color, draw_commands, intermediary_state,
                   handles>>
    /\ UNCHANGED histVars
    /\ UNCHANGED outVars

\* Ellipse::resolution
Ellipse_resolution(ellipse, resolution) == [ellipse EXCEPT !.resolution = Some(resolution)]

DrawingEllipse_resolution(index, resolution) ==
    /\ index \in DOMAIN drawing
    /\ drawing[index].kind = "Ellipse"
    /\ drawing[index] # Ellipse_resolution(drawing[index], resolution)
    /\ drawing' = [drawing EXCEPT ![index] = Ellipse_resolution(drawing[index], resolution)]
    /\ last_op' = Op("resolution", 0, index)
    /\ last_arg' = NoRect
    /\ UNCHANGED <<last_draw_context, background_color, draw_commands, intermediary_state,
                   handles>>
    /\ UNCHANGED histVars
    /\ UNCHANGED outVars

Line_points(line, start, end) == [line EXCEPT !.start = Some(start), !.end = Some(end)]

\* DrawingLine::points: map_ty(|ty| ty.points(start, end)).
DrawingLine_points(index, start, end) ==
    /\ index \in DOMAIN drawing
    /\ drawing[index].kind = "Line"
    /\ drawing[index] # Line_points(drawing[index], start, end)
    /\ drawing' = [drawing EXCEPT ![index] = Line_points(drawing[index], start, end)]
    /\ last_op' = Op("points", 0, index)
    /\ last_arg' = NoRect
    /\ UNCHANGED <<last_draw_context, background_color, draw_commands, intermediary_state,
                   handles>>
    /\ UNCHANGED histVars
    /\ UNCHANGED outVars

----------------------------------------------------------------------------
\* The SVG backend (draw/svg_renderer/mod.rs) and the render capabilities of
\* the primitives.

\* The variants of Primitive, and those whose arm of to_svg's match adds an
\* element to the document; the other arms are empty.
PrimitiveVariants ==
    {"Arrow", "Ellipse", "Line", "MeshVertexless", "Mesh", "PathInit", "PathFill",
     "PathStroke", "Path", "PolygonInit", "Polygon", "Quad", "Rect", "Text", "Texture",
     "Tri"}
SvgRendered == {"Ellipse", "Line", "Polygon", "Quad", "Rect", "Tri"}

\* Option::unwrap_or
unwrap_or(o, default) == IF IsSome(o) THEN Unwrap(o) ELSE default

\* cgmath's Transform::transform_point on the point (v.x, v.y, 0).
transform_point(m, v) ==
    <<m[1][1] * v[1] + m[1][2] * v[2] + m[1][4],
      m[2][1] * v[1] + m[2][2] * v[2] + m[2][4]>>

\* What a render capability leaves when Option::unwrap meets None.
Panic == [tag |-> "panic"]

\* SvgRenderContext, built from the tracked context for each command.
SvgRenderContext(curr_ctxt) == [transform |-> curr_ctxt.transform]

\* Line::render_svg_element.  The position and orientation of the path are
\* the defaults, so local_transform is the identity.  ctx is kept in the
\* element as the history of what the capability was given.
Line_render_svg_element(line, ctx) ==
    LET start == unwrap_or(line.start, <<0, 0>>)
        end == unwrap_or(line.end, <<0, 0>>)
        composed == Mat_mul(ctx.transform, Identity)
        from == transform_point(composed, start)
        to == transform_point(composed, end)
    IN  IF line.color = NoneV
        THEN Panic
        ELSE [tag |-> "line", id |-> line.id, ctx |-> ctx,
              stroke |-> Unwrap(line.color),
              x1 |-> from[1], y1 |-> -from[2], x2 |-> to[1], y2 |-> -to[2]]

\* Ellipse::render_svg_element
Ellipse_render_svg_element(ellipse, ctx) ==
    LET composed == Mat_mul(ctx.transform, Identity)
        pos == transform_point(composed, <<0, 0>>)
    IN  [tag |-> "ellipse", id |-> ellipse.id, ctx |-> ctx,
         fill |-> unwrap_or(ellipse.color, "BLACK"),
         cx |-> pos[1], cy |-> -pos[2]]

\* Rect::render_svg_element: the default position and dimensions.
Rect_render_svg_element(rect, ctx) ==
    IF rect.color = NoneV
    THEN Panic
    ELSE [tag |-> "rect", id |-> rect.id, ctx |-> ctx,
          fill |-> Unwrap(rect.color), x |-> 0 - 50, y |-> -(0 + 50)]

\* Quad::default: the vertices a, b, c, d.
Quad_default == <<<<-50, -50>>, <<-50, 50>>, <<50, 50>>, <<50, -50>>>>

\* Quad::render_svg_element with no dimensions set: the path moves to the
\* first vertex, goes through the others and back to the first.
Quad_render_svg_element(quad, ctx) ==
    LET composed == Mat_mul(ctx.transform, Identity)
        points == Quad_default \o <<Quad_default[1]>>
        data == [k \in 1..Len(points) |->
                   LET tp == transform_point(composed, points[k])
                   IN  <<tp[1], -tp[2]>>]
    IN  [tag |-> "path", id |-> quad.id, ctx |-> ctx,
         fill |-> unwrap_or(quad.color, "BLACK"), d |-> data]

\* Polygon and Tri: one element each.
Other_render_svg_element(prim, ctx) ==
    [tag |-> prim.kind, id |-> prim.id, ctx |-> ctx]

\* The arms of to_svg's match that call render_svg_element.
render_svg_element(p, ctx) ==
    CASE p.kind = "Ellipse" -> Ellipse_render_svg_element(p, ctx)
      [] p.kind = "Line" -> Line_render_svg_element(p, ctx)
      [] p.kind = "Quad" -> Quad_render_svg_element(p, ctx)
      [] p.kind = "Rect" -> Rect_render_svg_element(p, ctx)
      [] OTHER -> Other_render_svg_element(p, ctx)

\* Mutant: a Context command is skipped, the tracked context stays.
RECURSIVE Svg_replay_untracked(_, _, _)
Svg_replay_untracked(draw_cmds, curr_ctxt, doc) ==
    IF draw_cmds = <<>>
    THEN [document |-> doc, panicked |-> FALSE]
    ELSE LET draw_cmd == Head(draw_cmds)
             ctx == SvgRenderContext(curr_ctxt)
         IN  IF draw_cmd.tag = "Context"
             THEN Svg_replay_untracked(Tail(draw_cmds), curr_ctxt, doc)
             ELSE IF draw_cmd.prim.kind \in SvgRendered
                  THEN LET el == render_svg_element(draw_cmd.prim, ctx)
                       IN  IF el = Panic
                           THEN [document |-> doc, panicked |-> TRUE]
                           ELSE Svg_replay_untracked(Tail(draw_cmds), curr_ctxt,
                                                     Append(doc, el))
                  ELSE Svg_replay_untracked(Tail(draw_cmds), curr_ctxt, doc)

\* The loop of to_svg over the drained commands: curr_ctxt is the tracked
\* context, doc the elements added so far.  A panic ends the loop.
RECURSIVE Svg_replay(_, _, _)
Svg_replay(draw_cmds, curr_ctxt, doc) ==
    IF draw_cmds = <<>>
    THEN [document |-> doc, panicked |-> FALSE]
    ELSE LET draw_cmd == Head(draw_cmds)
             ctx == SvgRenderContext(curr_ctxt)
         IN  IF draw_cmd.tag = "Context"
             THEN Svg_replay(Tail(draw_cmds), draw_cmd.ctx, doc)
             ELSE IF draw_cmd.prim.kind \in SvgRendered
                  THEN LET el == render_svg_element(draw_cmd.prim, ctx)
                       IN  IF el = Panic
                           THEN [document |-> doc, panicked |-> TRUE]
                           ELSE Svg_replay(Tail(draw_cmds), curr_ctxt, Append(doc, el))
                  ELSE Svg_replay(Tail(draw_cmds), curr_ctxt, doc)

\* Mutant: the background rectangle is added whether or not a colour is set.
Svg_background_always(bg_color) ==
    <<[tag |-> "background", fill |-> unwrap_or(bg_color, "NONE")]>>

\* The background rectangle of to_svg, added when background_color is Some.
Svg_background(bg_color) ==
    IF IsSome(bg_color)
    THEN <<[tag |-> "background", fill |-> Unwrap(bg_color)]>>
    ELSE <<>>

\* to_svg: drain the commands, then build the document from the State's
\* background colour and the drained commands.
to_svg ==
    /\ Draw_drain_commands
    /\ LET r == Svg_replay(returned', Context_default, Svg_background(background_color))
       IN  /\ document' = r.document
           /\ panicked' = r.panicked
    /\ last_op' = Op("to_svg", 0, -1)
    /\ last_arg' = NoRect
    /\ UNCHANGED <<mesh, mesh_log>>

----------------------------------------------------------------------------
\* The mesh backend.

\* path::render_path_events: the tessellated stroke or fill is appended to
\* the mesh.
render_path_events(m) ==
    [vertices |-> m.vertices + 4, indices |-> m.indices + 6]

\* Mutant: the test for start == end is missing.
Line_render_primitive_unchecked(line, m) == render_path_events(m)

\* Line::render_primitive
Line_render_primitive(line, m) ==
    LET start == unwrap_or(line.start, <<0, 0>>)
        end == unwrap_or(line.end, <<0, 0>>)
    IN  IF start = end THEN m ELSE render_path_events(m)

\* f32::abs
abs(x) == IF x < 0 THEN -x ELSE x

\* polygon::render_points_themed on the given points: a polygon whose points
\* all coincide contributes nothing.
render_points_themed(points, m) ==
    IF \A i, j \in 1..Len(points) : points[i] = points[j]
    THEN m
    ELSE render_path_events(m)

\* geom::Ellipse::new(rect, resolution).circumference(): resolution points on
\* the ellipse inscribed in a rect of width w and height h around the
\* origin; only whether they coincide is kept.
Ellipse_circumference(w, h, resolution) ==
    [k \in 1..resolution |-> IF w = 0 /\ h = 0 THEN <<0, 0>> ELSE <<k, 0>>]

\* Mutant: the path is built whatever the radii are.
Ellipse_render_primitive_unchecked(ellipse, m) ==
    IF IsSome(ellipse.dimensions.z)
    THEN Panic
    ELSE LET w == abs(unwrap_or(ellipse.dimensions.x, 100))
             h == abs(unwrap_or(ellipse.dimensions.y, 100))
         IN  IF ellipse.resolution = NoneV
             THEN render_path_events(m)
             ELSE render_points_themed(
                      Ellipse_circumference(w, h, Unwrap(ellipse.resolution)), m)

\* Ellipse::render_primitive.  The radii are w * 0.5 and h * 0.5; lengths are
\* even here, so the halves are exact.
Ellipse_render_primitive(ellipse, m) ==
    IF IsSome(ellipse.dimensions.z)
    THEN Panic
    ELSE LET w == abs(unwrap_or(ellipse.dimensions.x, 100))
             h == abs(unwrap_or(ellipse.dimensions.y, 100))
             radii == <<w \div 2, h \div 2>>
             square_length == radii[1] * radii[1] + radii[2] * radii[2]
         IN  IF ellipse.resolution = NoneV
             THEN IF square_length > 0 THEN render_path_events(m) ELSE m
             ELSE render_points_themed(
                      Ellipse_circumference(w, h, Unwrap(ellipse.resolution)), m)

\* geom::Rect::from_wh(w, h).corners().vertices()
Rect_corners(w, h) ==
    <<<<-(w \div 2), -(h \div 2)>>, <<-(w \div 2), h \div 2>>,
      <<w \div 2, h \div 2>>, <<w \div 2, -(h \div 2)>>>>

\* Rect::render_primitive
Rect_render_primitive(rect, m) ==
    IF IsSome(rect.dimensions.z)
    THEN Panic
    ELSE LET w == unwrap_or(rect.dimensions.x, 100)
             h == unwrap_or(rect.dimensions.y, 100)
         IN  render_points_themed(Rect_corners(w, h), m)

\* Quad::render_primitive with neither x nor y set: dimensions.z is bound
\* to _maybe_z and never read.
Quad_render_primitive(quad, m) == render_points_themed(Quad_default, m)

\* RenderPrimitive::render_primitive of the variant.
render_primitive(p, m) ==
    CASE p.kind = "Line" -> Line_render_primitive(p, m)
      [] p.kind = "Ellipse" -> Ellipse_render_primitive(p, m)
      [] p.kind = "Rect" -> Rect_render_primitive(p, m)
      [] p.kind = "Quad" -> Quad_render_primitive(p, m)
      [] OTHER -> render_path_events(m)

\* The renderer's loop over the drained commands: m is its Mesh, log the
\* Mesh after each Primitive command.
RECURSIVE Renderer_fill(_, _, _)
Renderer_fill(draw_cmds, m, log) ==
    IF draw_cmds = <<>>
    THEN [mesh |-> m, log |-> log, panicked |-> FALSE]
    ELSE LET draw_cmd == Head(draw_cmds)
         IN  IF draw_cmd.tag = "Context"
             THEN Renderer_fill(Tail(draw_cmds), m, log)
             ELSE LET n == render_primitive(draw_cmd.prim, m)
                  IN  IF n = Panic
                      THEN [mesh |-> m, log |-> log, panicked |-> TRUE]
                      ELSE Renderer_fill(Tail(draw_cmds), n, Append(log, n))

\* Draw::to_frame: the renderer clears its Mesh, drains the commands and
\* renders them into the Mesh.
to_frame ==
    /\ Draw_drain_commands
    /\ LET r == Renderer_fill(returned', Mesh_default, <<>>)
       IN  /\ mesh' = r.mesh
           /\ mesh_log' = r.log
           /\ panicked' = r.panicked
    /\ last_op' = Op("to_frame", 0, -1)
    /\ last_arg' = NoRect
    /\ UNCHANGED document

\* Mutant: the sequence drain_commands returned is a view of the shared
\* buffer, which reset empties.
reset_through_returned ==
    /\ LET st == State_reset(State)
       IN  /\ last_draw_context' = st.last_draw_context
           /\ background_color' = st.background_color
           /\ drawing' = st.drawing
           /\ draw_commands' = st.draw_commands
           /\ intermediary_state' = st.intermediary_state
    /\ discarded' = discarded \cup IdsInBuffer
    /\ last_op' = Op("reset", 0, -1)
    /\ last_arg' = NoRect
    /\ origin' = [id \in Ids |-> Context_default]
    /\ drained' = FALSE
    /\ returned' = filter_map(draw_commands')
    /\ Call(Borrows_reset)
    /\ UNCHANGED <<handles, started, delivered>>

\* Draw::reset
reset ==
    /\ LET st == State_reset(State)
       IN  /\ last_draw_context' = st.last_draw_context
           /\ background_color' = st.background_color
           /\ drawing' = st.drawing
           /\ draw_commands' = st.draw_commands
           /\ intermediary_state' = st.intermediary_state
    /\ discarded' = discarded \cup IdsInBuffer
    /\ last_op' = Op("reset", 0, -1)
    /\ last_arg' = NoRect
    /\ origin' = [id \in Ids |-> Context_default]
    /\ drained' = FALSE
    /\ Call(Borrows_reset)
    /\ UNCHANGED <<handles, started, delivered, returned>>

\* The command buffer's operations.
Next ==
    \/ \E h \in Handles, kind \in ShapeKinds : shape(h, kind)
    \/ \E index \in Indices, v \in Cfgs : Drawing_map_primitive(index, v)
    \/ \E color \in Colors : background(color)
    \/ \E index \in Indices : finish_drawing(index)
    \/ finish_remaining_drawings
    \/ drain_commands
    \/ reset
    \/ \E h \in Handles, dst \in Handles : line_mode(h, dst)
    \/ \E h \in Handles, dst \in Handles : triangle_mode(h, dst)

Spec == Init /\ [][Next]_vars

\* The operations that touch the scratch buffers, with the ones that fill
\* and empty the command buffer.
NextScratch ==
    \/ \E h \in Handles, kind \in ShapeKinds : shape(h, kind)
    \/ \E h \in Handles, s \in Texts : text(h, s)
    \/ \E color \in Colors : background(color)
    \/ \E index \in Indices : finish_drawing(index)
    \/ finish_remaining_drawings
    \/ drain_commands
    \/ reset
    \/ \E h \in Handles, dst \in Handles : line_mode(h, dst)

SpecScratch == Init /\ [][NextScratch]_vars

\* The context operations alone: handles deriving handles.
NextContext ==
    \/ \E h \in Handles, dst \in Handles, rect \in Rects : scissor(h, dst, rect)
    \/ \E h \in Handles, dst \in Handles : line_mode(h, dst)
    \/ \E h \in Handles, dst \in Handles : point_mode(h, dst)
    \/ \E h \in Handles, dst \in Handles : triangle_mode(h, dst)

SpecContext == Init /\ [][NextContext]_vars

\* Every context operation, on a State that a background and shapes
\* started on the root handle fill.
NextHandles ==
    \/ \E h \in Handles, dst \in Handles, m \in Matrices : transform(h, dst, m)
    \/ \E h \in Handles, dst \in Handles, b \in BlendDescriptors : alpha_blend(h, dst, b)
    \/ \E h \in Handles, dst \in Handles, b \in BlendDescriptors : color_blend(h, dst, b)
    \/ \E h \in Handles, dst \in Handles, b \in BlendDescriptors : blend(h, dst, b)
    \/ \E h \in Handles, dst \in Handles, rect \in ClipRects : scissor(h, dst, rect)
    \/ \E h \in Handles, dst \in Handles : line_mode(h, dst)
    \/ \E h \in Handles, dst \in Handles : point_mode(h, dst)
    \/ \E h \in Handles, dst \in Handles : triangle_mode(h, dst)
    \/ \E h \in Handles, dst \in Handles, d \in SamplerDescriptors : sampler(h, dst, d)
    \/ \E kind \in ShapeKinds : shape(1, kind)
    \/ \E color \in Colors : background(color)

SpecHandles == Init /\ [][NextHandles]_vars

\* The scale operations, with factors whose products stay in a finite set.
Scales == {-1, 1}
ScaleVectors == {<<-1, 1, 1>>, <<1, -1, 1>>, <<1, 1, -1>>}

NextScale ==
    \/ \E h \in Handles, dst \in Handles, v \in ScaleVectors : scale_axes(h, dst, v)
    \/ \E h \in Handles, dst \in Handles, sc \in Scales : scale(h, dst, sc)
    \/ \E h \in Handles, dst \in Handles, sc \in Scales : scale_x(h, dst, sc)
    \/ \E h \in Handles, dst \in Handles, sc \in Scales : scale_y(h, dst, sc)
    \/ \E h \in Handles, dst \in Handles, sc \in Scales : scale_z(h, dst, sc)

SpecScale == Init /\ [][NextScale]_vars

\* A frame that is replayed by the two backends: shapes of a variant that
\* to_svg skips and of one it renders, under the transforms of two handles.
RenderKinds == {"Arrow", "Ellipse"}
RenderMatrices == {MirrorX}

NextSvg ==
    \/ \E h \in Handles, kind \in RenderKinds : shape(h, kind)
    \/ \E h \in Handles, dst \in Handles, m \in RenderMatrices : transform(h, dst, m)
    \/ \E color \in Colors : background(color)
    \/ to_svg
    \/ to_frame
    \/ reset

SpecSvg == Init /\ [][NextSvg]_vars

\* Lines on the root handle, their colour and points, and the two replays;
\* nothing follows a panic.
PointPairs == {<<<<1, 0>>, <<1, 0>>>>, <<<<0, 0>>, <<1, 0>>>>}

NextLine ==
    \/ ~panicked /\ shape(1, "Line")
    \/ ~panicked /\ \E index \in Indices, color \in Colors : Drawing_color(index, color)
    \/ ~panicked /\ \E index \in Indices, pp \in PointPairs :
                        DrawingLine_points(index, pp[1], pp[2])
    \/ ~panicked /\ to_svg
    \/ ~panicked /\ to_frame
    \/ ~panicked /\ reset

SpecLine == Init /\ [][NextLine]_vars

\* Coloured shapes of the four variants that render themselves to SVG, on
\* the root handle and on a handle translated from it, and the SVG replay.
PositionKinds == {"Ellipse", "Line", "Quad", "Rect"}
Translations == {<<1, 0, 0>>, <<0, 2, 0>>}

NextPosition ==
    \/ ~panicked /\ \E v \in Translations : translate(1, 2, v)
    \/ ~panicked /\ \E h \in Handles, kind \in PositionKinds : shape(h, kind)
    \/ ~panicked /\ \E index \in Indices, color \in Colors : Drawing_color(index, color)
    \/ ~panicked /\ to_svg
    \/ ~panicked /\ reset

SpecPosition == Init /\ [][NextPosition]_vars

\* Coloured shapes of the three variants with dimensions, their depth, and
\* the two replays; nothing follows a panic.
DepthKinds == {"Ellipse", "Rect", "Quad"}
Depths == {1}

NextDepth ==
    \/ ~panicked /\ \E kind \in DepthKinds : shape(1, kind)
    \/ ~panicked /\ \E index \in Indices, color \in Colors : Drawing_color(index, color)
    \/ ~panicked /\ \E index \in Indices, d \in Depths : Drawing_depth(index, d)
    \/ ~panicked /\ to_svg
    \/ ~panicked /\ to_frame
    \/ ~panicked /\ reset

SpecDepth == Init /\ [][NextDepth]_vars

\* Ellipses on the root handle, their radius and resolution, and the mesh
\* replay.
Radii == {0, 1}
Resolutions == {3}

NextEllipse ==
    \/ shape(1, "Ellipse")
    \/ \E index \in Indices, radius \in Radii : DrawingEllipse_radius(index, radius)
    \/ \E index \in Indices, resolution \in Resolutions :
         DrawingEllipse_resolution(index, resolution)
    \/ to_frame
    \/ reset

SpecEllipse == Init /\ [][NextEllipse]_vars

----------------------------------------------------------------------------
\* Properties.

\* What the slots of the buffer hold.
IsPrimitiveSlot(k) ==
    IsSome(draw_commands[k]) /\ Unwrap(draw_commands[k]).tag = "Primitive"
IsContextSlot(k) ==
    IsSome(draw_commands[k]) /\ Unwrap(draw_commands[k]).tag = "Context"
\* How often primitive id is in the buffer, pending or finalized.
InBufferCount(id) ==
    Cardinality({i \in DOMAIN drawing : drawing[i].id = id})
    + Cardinality({k \in 1..Len(draw_commands) :
                     IsPrimitiveSlot(k) /\ Unwrap(draw_commands[k]).prim.id = id})
\* The id of the shape that slot k was reserved for (0: none).
SlotId(k) ==
    IF IsPrimitiveSlot(k) THEN Unwrap(draw_commands[k]).prim.id
    ELSE IF (k - 1) \in DOMAIN drawing THEN drawing[k - 1].id
    ELSE 0
ShapeSlots == {k \in 1..Len(draw_commands) : ~IsContextSlot(k)}

\* C1: exactly-once finalization.  Every primitive started by a() and not
\* removed by a reset() is, at any time, either once in the buffer and in no
\* drained sequence, or in no buffer and exactly once in the drained
\* sequences; right after a drain every such primitive has been yielded
\* exactly once.
C1_ExactlyOnce ==
    \A id \in 1..started :
        id \notin discarded =>
            /\ InBufferCount(id) + delivered[id] = 1
            /\ (last_op.name = "drain_commands" => delivered[id] = 1)

\* Two drains have happened, every started primitive was yielded exactly
\* once, one of them by the earlier drain, and one was never finished by hand.
C1_Witness ==
    /\ last_op.name = "drain_commands"
    /\ started = MaxShapes
    /\ discarded = {}
    /\ \A id \in Ids : delivered[id] = 1
    /\ \E id \in Ids : Count(returned, id) = 0
    /\ last_op.pending # {}

\* C2: every primitive pending when drain_commands() is called is in the
\* returned sequence, as a Primitive command with the configuration it had.
C2_PendingDrained ==
    [][last_op'.name = "drain_commands" =>
         \A i \in DOMAIN drawing :
             \E k \in PrimIds(returned') : returned'[k].prim = drawing[i]]_vars

\* A drain returned a primitive that was pending and configured.
C2_Witness ==
    /\ last_op.name = "drain_commands"
    /\ \E k \in PrimIds(returned) :
         /\ (k - 1) \in last_op.pending
         /\ returned[k].prim.cfg # 0

\* C3: a() pushes exactly one ContextChange, directly before the slot it
\* reserves, if and only if the handle's Context differs from
\* last_draw_context; so between two consecutive shapes of the buffer there
\* is no ContextChange when their Contexts are equal, and never more than one.
C3_Dedup_Step ==
    last_op'.name = "a" /\ started' = started + 1 =>
        LET ctx == origin'[started']
        IN  IF last_draw_context # Some(ctx)
            THEN /\ draw_commands' =
                        draw_commands \o <<Some(DrawCommand_Context(ctx)), NoneV>>
                 /\ last_op'.index = Len(draw_commands) + 1
            ELSE /\ draw_commands' = Append(draw_commands, NoneV)
                 /\ last_op'.index = Len(draw_commands)
C3_Dedup_Runs ==
    \A k, j \in ShapeSlots :
        (k < j /\ \A m \in ShapeSlots : ~(k < m /\ m < j)) =>
            /\ j - k <= 2
            /\ (origin[SlotId(k)] = origin[SlotId(j)] => j = k + 1)
            /\ (origin[SlotId(k)] # origin[SlotId(j)] =>
                    /\ j = k + 2
                    /\ Unwrap(draw_commands[k + 1]).ctx = origin[SlotId(j)])
\* C3: context-change deduplication, the step of a() and the runs it leaves
\* in the buffer.
C3_ContextDedup == [][C3_Dedup_Step]_vars /\ []C3_Dedup_Runs

\* a() has just reserved a slot without a ContextChange, next to a shape of
\* the same Context.
C3_Witness ==
    /\ last_op.name = "a"
    /\ Len(draw_commands) = 3
    /\ IsContextSlot(1)
    /\ ShapeSlots = {2, 3}
    /\ origin[SlotId(2)] # Context_default

\* C4: the Primitive commands of a drained sequence are in the order of
\* their a() calls.
C4_CallOrder ==
    \A k, j \in PrimIds(returned) :
        k < j => returned[k].prim.id < returned[j].prim.id

\* A drain returned two primitives of which the later one was finished by
\* hand and the earlier one only by the drain.
C4_Witness ==
    /\ last_op.name = "drain_commands"
    /\ \E k, j \in PrimIds(returned) :
         /\ k < j
         /\ (k - 1) \in last_op.pending
         /\ (j - 1) \notin last_op.pending

\* C5: every index of draw_commands is either pending (a key of drawing,
\* its slot None) or finalized (its slot Some, no key of drawing).
C5_PendingOrFinalized ==
    \A i \in 0..(Len(draw_commands) - 1) :
        \/ i \in DOMAIN drawing /\ draw_commands[i + 1] = NoneV
        \/ i \notin DOMAIN drawing /\ IsSome(draw_commands[i + 1])

\* One shape is pending while another has been finalized.
C5_Witness ==
    /\ \E i \in DOMAIN drawing : draw_commands[i + 1] = NoneV
    /\ \E k \in 1..Len(draw_commands) : IsPrimitiveSlot(k)

\* C6: drain_commands() yields as many commands as draw_commands held just
\* before the drain: no slot is None after the forced finalization, the
\* filter removes nothing.
C6_NoHoles ==
    [][last_op'.name = "drain_commands" =>
         /\ Len(returned') = Len(draw_commands)
         /\ \A k \in 1..Len(returned') :
              returned'[k].tag \in {"Primitive", "Context"}]_vars

\* A drain that had two pending primitives to finalize.
C6_Witness ==
    /\ last_op.name = "drain_commands"
    /\ Cardinality(last_op.pending) >= 2
    /\ Len(returned) >= 3

\* C7: after drain_commands() the buffer and the drawing map are empty, and
\* a drain directly after a drain returns the empty sequence.
C7_DrainExhausts ==
    /\ [](last_op.name = "drain_commands" =>
            draw_commands = <<>> /\ DOMAIN drawing = {})
    /\ [][(last_op.name = "drain_commands" /\ last_op'.name = "drain_commands") =>
            returned' = <<>>]_vars

\* A drain returned nothing although primitives had been drained before.
C7_Witness ==
    /\ last_op.name = "drain_commands"
    /\ returned = <<>>
    /\ \E id \in Ids : delivered[id] = 1

\* C8: after reset() the State is the State of a new Draw: no background
\* colour, no last context, no pending primitive, no command, empty scratch
\* buffers.
C8_ResetIsFresh ==
    last_op.name = "reset" => State = State_default

\* A reset of a session that had pending and finalized primitives.
C8_Witness ==
    /\ last_op.name = "reset"
    /\ last_op.pending # {}
    /\ Cardinality(discarded) >= 2

\* C9: finish_drawing(i) on an index that is not pending changes nothing in
\* the State, and finish_drawing(i) directly after finish_drawing(i)
\* changes nothing.
C9_FinishIdempotent ==
    [][last_op'.name = "finish_drawing" =>
         /\ (last_op'.index \notin DOMAIN drawing => UNCHANGED stateVars)
         /\ (last_op.name = "finish_drawing" /\ last_op.index = last_op'.index =>
                UNCHANGED stateVars)]_vars

\* finish_drawing was called on an index that had already been finalized.
C9_Witness ==
    /\ last_op.name = "finish_drawing"
    /\ last_op.index \notin last_op.pending
    /\ last_op.index < Len(draw_commands)
    /\ IsPrimitiveSlot(last_op.index + 1)

\* The points of a rectangle (its edges included).
Points(r) == (r.x.start..r.x.end) \X (r.y.start..r.y.end)

\* C10: scissor(A) on a Full scissor gives Rect(A); on Rect(R) it gives the
\* rectangle of the points common to R and A when there are any and
\* NoOverlap when there are none; on NoOverlap it gives NoOverlap.
C10_ScissorComposition ==
    [][last_op'.name = "scissor" =>
         LET old == handles[last_op'.h].scissor
             new == handles'[last_op'.index].scissor
             common == Points(old.rect) \cap Points(last_arg')
         IN  CASE old.tag = "Full" -> new = Scissor_Rect(last_arg')
               [] old.tag = "Rect" ->
                    IF common # {}
                    THEN new.tag = "Rect" /\ Points(new.rect) = common
                    ELSE new = Scissor_NoOverlap
               [] old.tag = "NoOverlap" -> new = Scissor_NoOverlap]_vars

\* A scissor on a Rect scissor gave a rectangle smaller than its argument.
C10_Witness ==
    /\ last_op.name = "scissor"
    /\ handles[last_op.index].scissor.tag = "Rect"
    /\ handles[last_op.index].scissor.rect # last_arg

\* The primitive with the given id, as the buffer holds it (pending or
\* finalized).
BufferPrim(id) ==
    IF \E i \in DOMAIN drawing : drawing[i].id = id
    THEN drawing[CHOOSE i \in DOMAIN drawing : drawing[i].id = id]
    ELSE Unwrap(draw_commands[CHOOSE k \in 1..Len(draw_commands) :
                                 IsPrimitiveSlot(k)
                                 /\ Unwrap(draw_commands[k]).prim.id = id]).prim
MinOf(S) == CHOOSE x \in S : \A y \in S : x <= y
MaxOf(S) == CHOOSE x \in S : \A y \in S : x >= y

\* C11: in a session that is new or reset and not yet drained, two shapes
\* started with different Contexts c1 then c2 drain as exactly
\* ContextChange(c1), Primitive(first), ContextChange(c2), Primitive(second).
C11_FourCommands ==
    [][(/\ last_op'.name = "drain_commands"
        /\ ~drained
        /\ Cardinality(IdsInBuffer) = 2
        /\ origin[MinOf(IdsInBuffer)] # origin[MaxOf(IdsInBuffer)]) =>
         LET first == MinOf(IdsInBuffer)
             second == MaxOf(IdsInBuffer)
         IN  returned' = <<DrawCommand_Context(origin[first]),
                           DrawCommand_Primitive(BufferPrim(first)),
                           DrawCommand_Context(origin[second]),
                           DrawCommand_Primitive(BufferPrim(second))>>]_vars

\* The first drain of a session returned two shapes, each behind its own
\* ContextChange.
C11_Witness ==
    /\ last_op.name = "drain_commands"
    /\ Len(returned) = 4
    /\ returned[1].tag = "Context"
    /\ returned[3].tag = "Context"
    /\ returned[1].ctx # returned[3].ctx
    /\ \A id \in Ids : delivered[id] = Count(returned, id)

\* The operations that derive a handle with another Context.
ContextOps ==
    {"transform", "alpha_blend", "color_blend", "blend", "scissor", "line_mode",
     "point_mode", "triangle_mode", "sampler"}

\* C12: a context operation returns a new handle and changes neither the
\* shared State nor the Context of any handle the caller already holds, the
\* handle it was called on included; only the variable the caller binds the
\* result to has the new Context.
C12_ContextOpFrame ==
    [][last_op'.name \in ContextOps =>
         /\ UNCHANGED stateVars
         /\ \A g \in Handles \ {last_op'.index} : handles'[g] = handles[g]]_vars

\* A context operation on the root gave a handle with another Context while
\* the State held a background and a shape.
C12_Witness ==
    /\ last_op.name \in ContextOps
    /\ last_op.h = 1
    /\ last_op.index = 2
    /\ handles[2] # handles[1]
    /\ handles[1] = Context_default
    /\ IsSome(background_color)
    /\ DOMAIN drawing # {}

\* The ContextChange slots before slot k of the buffer.
ContextSlotsBefore(k) == {m \in 1..(k - 1) : IsContextSlot(m)}

\* Every shape of the buffer follows a ContextChange (always, until the
\* session is drained), and the nearest one before it carries the Context of
\* the handle that started the shape.
C13_Tagged ==
    \A k \in ShapeSlots :
        /\ (~drained => ContextSlotsBefore(k) # {})
        /\ (ContextSlotsBefore(k) # {} =>
                Unwrap(draw_commands[MaxOf(ContextSlotsBefore(k))]).ctx = origin[SlotId(k)])
\* The shapes of the buffer are in the order of their a() calls, whichever
\* handle started them.
C13_GlobalOrder ==
    \A k, j \in ShapeSlots : k < j => SlotId(k) < SlotId(j)
\* A drain returns every shape of the buffer, once.
C13_DrainAll ==
    last_op'.name = "drain_commands" =>
        \A id \in IdsInBuffer : Count(returned', id) = 1
\* A context operation leaves every other handle's Context as it was.
C13_OtherHandles ==
    last_op'.name \in ContextOps =>
        \A g \in Handles \ {last_op'.index} : handles'[g] = handles[g]

C14_Step ==
    last_op'.name = "transform" =>
        LET t == handles[last_op'.h].transform
            m == last_arg'
            n == handles'[last_op'.index].transform
        IN  /\ \A i, j \in 1..4 :
                  n[i][j] = t[i][1] * m[1][j] + t[i][2] * m[2][j]
                            + t[i][3] * m[3][j] + t[i][4] * m[4][j]
            /\ [handles'[last_op'.index] EXCEPT !.transform = t] = handles[last_op'.h]
\* From any handle, chaining two matrices that do not commute in the two
\* orders gives two different transforms.
C14_Chain ==
    \A h \in Handles : \A m1, m2 \in Matrices :
        Mat_mul(m1, m2) # Mat_mul(m2, m1) =>
            Draw_transform(Draw_transform(handles[h], m1), m2).transform
                # Draw_transform(Draw_transform(handles[h], m2), m1).transform

\* C14: transform(M) on a handle with transform T gives a handle with
\* transform T * M (M multiplied from the right), so chaining A then B gives
\* T * A * B, which differs from T * B * A when A and B do not commute.
C14_TransformComposition == [][C14_Step]_vars /\ []C14_Chain

\* A quarter turn and then a mirror were chained from the root; the other
\* order would have given another transform.
C14_Witness ==
    /\ last_op.name = "transform"
    /\ last_op.h = 2
    /\ last_arg = MirrorX
    /\ handles[2].transform = Mat_mul(Mat_mul(Identity, Rot90z), MirrorX)
    /\ handles[2].transform # Mat_mul(Mat_mul(Identity, MirrorX), Rot90z)

\* The Primitive commands of a sequence, and the elements of a document
\* that are not its background.
PrimSeq(cmdseq) == SelectSeq(cmdseq, LAMBDA c : c.tag = "Primitive")
ShapeElements(doc) == SelectSeq(doc, LAMBDA e : e.tag # "background")
\* The Context of the last ContextChange before position k of a sequence,
\* the default Context when there is none.
TrackedContext(cmdseq, k) ==
    LET before == {m \in 1..(k - 1) : cmdseq[m].tag = "Context"}
    IN  IF before = {} THEN Context_default ELSE cmdseq[MaxOf(before)].ctx

\* C15: to_svg gives the render capability of each Primitive command the
\* Context of the last ContextChange before it in the drained sequence, the
\* default Context when there is none: every element of the document was
\* rendered with that Context, and every primitive of a rendered variant
\* has its element.
C15_TrackedContext ==
    last_op.name = "to_svg" =>
        /\ \A e \in 1..Len(document) :
              document[e].tag # "background" =>
                  \E k \in PrimIds(returned) :
                      /\ returned[k].prim.id = document[e].id
                      /\ document[e].ctx = SvgRenderContext(TrackedContext(returned, k))
        /\ (~panicked =>
               \A k \in PrimIds(returned) :
                   returned[k].prim.kind \in SvgRendered =>
                       \E e \in 1..Len(document) :
                           /\ document[e].tag # "background"
                           /\ document[e].id = returned[k].prim.id)

\* to_svg rendered two shapes, the first with the default transform and
\* the second with the transform of the ContextChange between them.
C15_Witness ==
    /\ last_op.name = "to_svg"
    /\ Len(ShapeElements(document)) = 2
    /\ ShapeElements(document)[1].ctx.transform = Identity
    /\ ShapeElements(document)[2].ctx.transform = MirrorX
    /\ Len(returned) = 4

\* C16: to_svg adds exactly one element per Primitive command of the
\* drained sequence, whatever its variant, in command order.
C16_OneElementPerPrimitive ==
    last_op.name = "to_svg" =>
        /\ Len(ShapeElements(document)) = Len(PrimSeq(returned))
        /\ \A e \in 1..Len(ShapeElements(document)) :
              ShapeElements(document)[e].id = PrimSeq(returned)[e].prim.id

\* C17: when to_svg and then to_frame replay the same Draw, with nothing
\* between them, the second replay sees the sequence the first one saw.
C17_SameStream ==
    [][(last_op.name = "to_svg" /\ last_op'.name = "to_frame") =>
          returned' = returned]_vars

\* No drained command is anything but a Primitive or a ContextChange.
C18_NotACommand ==
    \A k \in 1..Len(returned) : returned[k].tag \in {"Primitive", "Context"}
\* The document of to_svg starts with its one background element when the
\* State has a background colour and has no background element when not.
C18_PaintedFirst ==
    last_op.name = "to_svg" =>
        IF IsSome(background_color)
        THEN /\ Len(document) >= 1
             /\ document[1] = [tag |-> "background", fill |-> Unwrap(background_color)]
             /\ \A e \in 2..Len(document) : document[e].tag # "background"
        ELSE \A e \in 1..Len(document) : document[e].tag # "background"

\* C18: the background colour is never a DrawCommand; to_svg adds its
\* element before every primitive element when background_color is Some and
\* adds none when it is None.
C18_Background == C18_NotACommand /\ C18_PaintedFirst

\* to_svg put the background before the element of a shape.
C18_Witness ==
    /\ last_op.name = "to_svg"
    /\ IsSome(background_color)
    /\ Len(document) >= 2
    /\ document[2].tag = "ellipse"

\* A Line whose start equals its end, unset points being (0, 0).
Degenerate(p) ==
    p.kind = "Line" /\ unwrap_or(p.start, <<0, 0>>) = unwrap_or(p.end, <<0, 0>>)
\* The Mesh before the n-th Primitive command of the last to_frame.
MeshBefore(n) == IF n = 1 THEN Mesh_default ELSE mesh_log[n - 1]

\* A degenerate Line that is pending when to_frame drains is in the drained
\* sequence as a Primitive command.
C19_Drained ==
    last_op'.name = "to_frame" =>
        \A i \in DOMAIN drawing :
            Degenerate(drawing[i]) =>
                \E k \in PrimIds(returned') : returned'[k].prim = drawing[i]
\* The renderer rendered every Primitive command, and a degenerate Line
\* left the vertex and index counts as they were, without a panic.
C19_NoGeometry ==
    last_op.name = "to_frame" =>
        /\ ~panicked
        /\ Len(mesh_log) = Len(PrimSeq(returned))
        /\ \A n \in 1..Len(mesh_log) :
              Degenerate(PrimSeq(returned)[n].prim) => mesh_log[n] = MeshBefore(n)

\* C19: a Line whose start equals its end (set so, or neither set) drains
\* as a Primitive command, and rendering it into the mesh leaves the vertex
\* and index counts unchanged and does not fail.
C19_DegenerateMeshLine == [][C19_Drained]_vars /\ []C19_NoGeometry

\* to_frame rendered a line with geometry and then a line with equal
\* points that added nothing.
C19_Witness ==
    /\ last_op.name = "to_frame"
    /\ Len(mesh_log) = 2
    /\ mesh_log[1].vertices > 0
    /\ mesh_log[2] = mesh_log[1]
    /\ IsSome(PrimSeq(returned)[2].prim.start)
    /\ Degenerate(PrimSeq(returned)[2].prim)

\* C20: to_svg adds no element for a Line whose start equals its end (here:
\* one that has a colour, so that nothing else can fail).
C20_DegenerateSvgLine ==
    last_op.name = "to_svg" =>
        \A k \in PrimIds(returned) :
            (Degenerate(returned[k].prim) /\ IsSome(returned[k].prim.color)) =>
                /\ ~panicked
                /\ \A e \in 1..Len(document) :
                      document[e].tag = "line" => document[e].id # returned[k].prim.id

\* The variants whose SVG render capability is in the source.
SvgInSource == {"Ellipse", "Line", "Quad", "Rect"}

\* C21: to_svg never fails on a shape without a colour: for every Ellipse,
\* Line, Quad and Rect command whose colour is None the document has an
\* element, and no render capability has panicked.
C21_ColorFallback ==
    last_op.name = "to_svg" =>
        /\ ~panicked
        /\ \A k \in PrimIds(returned) :
              (returned[k].prim.kind \in SvgInSource /\ returned[k].prim.color = NoneV) =>
                  \E e \in 1..Len(document) :
                      /\ document[e].tag # "background"
                      /\ document[e].id = returned[k].prim.id

\* Does a call with these borrows request a borrow of the state cell while
\* it holds one (held counts the borrows of state it holds)?
RECURSIVE Reborrows(_, _)
Reborrows(events, held) ==
    IF events = <<>>
    THEN FALSE
    ELSE LET e == Head(events)
         IN  IF e.cell # "state"
             THEN Reborrows(Tail(events), held)
             ELSE IF e.op \in {"borrow", "borrow_mut"}
                  THEN held > 0 \/ Reborrows(Tail(events), held + 1)
                  ELSE Reborrows(Tail(events), held - 1)

\* C22: the command-buffer operations are total: no sequence of context
\* operations, shape constructors, text(), finish_drawing,
\* finish_remaining_drawings, drain_commands and reset panics, and none of
\* them requests a borrow of the shared state while it still holds one.
C22_Total ==
    /\ ~panicked
    /\ \A events \in {Borrows_a, Borrows_text, Borrows_reset,
                       Borrows_finish_remaining_drawings, Borrows_drain_commands,
                       Borrows_finish_drawing} :
          ~Reborrows(events, 0)

\* A text and a shape were started, one of them was finished by hand, both
\* were drained and the session was reset.
C22_Witness ==
    /\ last_op.name = "reset"
    /\ started = MaxShapes
    /\ \A id \in Ids : delivered[id] = 1
    /\ \E k \in PrimIds(returned) : returned[k].prim.kind = "Text"
    /\ \E k \in PrimIds(returned) : returned[k].prim.kind # "Text"
    /\ ~panicked

\* C23: scale_x(s) gives the Context that scale_axes((s, 1, 1)) gives,
\* scale_y(s) that of scale_axes((1, s, 1)) and scale_z(s) that of
\* scale_axes((1, 1, s)).
C23_ScaleOneAxis ==
    [][/\ (last_op'.name = "scale_x" =>
              handles'[last_op'.index]
                  = Draw_scale_axes(handles[last_op'.h], <<last_arg', 1, 1>>))
       /\ (last_op'.name = "scale_y" =>
              handles'[last_op'.index]
                  = Draw_scale_axes(handles[last_op'.h], <<1, last_arg', 1>>))
       /\ (last_op'.name = "scale_z" =>
              handles'[last_op'.index]
                  = Draw_scale_axes(handles[last_op'.h], <<1, 1, last_arg'>>))]_vars

\* The topology each mode sets.
ModeTopology ==
    [line_mode |-> "LineList", point_mode |-> "PointList", triangle_mode |-> "TriangleList"]
ContextFields == {"transform", "alpha_blend", "color_blend", "scissor", "topology", "sampler"}

\* A mode gives its fixed topology, whatever the topology was, and keeps
\* every other field of the Context it was called on.
C24_Step ==
    last_op'.name \in DOMAIN ModeTopology =>
        LET old == handles[last_op'.h]
            new == handles'[last_op'.index]
        IN  /\ new.topology = ModeTopology[last_op'.name]
            /\ \A f \in ContextFields \ {"topology"} : new[f] = old[f]
\* The same mode applied to the handle the mode has just returned gives
\* the same Context again.
C24_Twice ==
    (/\ last_op.name \in DOMAIN ModeTopology
     /\ last_op'.name = last_op.name
     /\ last_op'.h = last_op.index) =>
        handles'[last_op'.index] = handles[last_op.index]

C25_Reserve ==
    [][last_op'.name = "a" =>
         LET index == last_op'.index
             n == Len(draw_commands)
         IN  /\ Len(draw_commands') \in {n + 1, n + 2}
             /\ SubSeq(draw_commands', 1, n) = draw_commands
             /\ (Len(draw_commands') = n + 2 =>
                    /\ IsSome(draw_commands'[n + 1])
                    /\ Unwrap(draw_commands'[n + 1]).tag = "Context")
             /\ index = Len(draw_commands') - 1
             /\ draw_commands'[index + 1] = NoneV
             /\ DOMAIN drawing' = DOMAIN drawing \cup {index}
             /\ index \notin DOMAIN drawing
             /\ drawing'[index].id = started'
             /\ \A i \in DOMAIN drawing : drawing'[i] = drawing[i]
             /\ \A k \in ShapeSlots : k - 1 < index]_vars

\* a() reserved index 3 behind a second ContextChange, after index 1.
C25_Witness ==
    /\ last_op.name = "a"
    /\ last_op.index = 3
    /\ Len(draw_commands) = 4
    /\ IsContextSlot(3)
    /\ ShapeSlots = {2, 4}
    /\ 3 \in DOMAIN drawing

\* C26: finish_remaining_drawings() empties the drawing map and keeps the
\* length of draw_commands and every entry that was already Some; each slot
\* that was pending holds Primitive of its pending primitive afterwards, and
\* background_color and last_draw_context are unchanged.
C26_FlushInPlace ==
    [][last_op'.name = "finish_remaining_drawings" =>
         /\ DOMAIN drawing' = {}
         /\ Len(draw_commands') = Len(draw_commands)
         /\ \A k \in 1..Len(draw_commands) :
               IsSome(draw_commands[k]) => draw_commands'[k] = draw_commands[k]
         /\ \A i \in DOMAIN drawing :
               /\ i + 1 \in 1..Len(draw_commands)
               /\ draw_commands[i + 1] = NoneV
               /\ draw_commands'[i + 1] = Some(DrawCommand_Primitive(drawing[i]))
         /\ background_color' = background_color
         /\ last_draw_context' = last_draw_context]_vars

\* A flush found one slot pending behind a finalized one and filled it.
C26_Witness ==
    /\ last_op.name = "finish_remaining_drawings"
    /\ last_op.pending # {}
    /\ drawing = EmptyMap
    /\ \E k \in ShapeSlots : k - 1 \notin last_op.pending
    /\ \A k \in 1..Len(draw_commands) : IsSome(draw_commands[k])
    /\ IsSome(background_color)
    /\ ~drained

\* C27: drain_commands() leaves a new, empty buffer behind, and the sequence
\* it returned is a snapshot: no later step of another operation changes it,
\* and a shape started or finished after the drain is recorded in the new
\* buffer and is not in the returned sequence.
ReturnedIds(cmdseq) == {cmdseq[k].prim.id : k \in PrimIds(cmdseq)}
C27_Snapshot ==
    [][/\ last_op'.name = "drain_commands" =>
            /\ draw_commands' = <<>>
            /\ drawing' = EmptyMap
       /\ last_op'.name # "drain_commands" => returned' = returned
       /\ (last_op'.name = "a" /\ drained) =>
            /\ started' \notin ReturnedIds(returned')
            /\ \E i \in DOMAIN drawing' : drawing'[i].id = started'
            /\ Len(draw_commands') \in 1..(Len(draw_commands) + 2)
       /\ (last_op'.name \in {"finish_drawing", "finish_remaining_drawings"} /\ drained) =>
            \A k \in 1..Len(draw_commands') :
              (IsSome(draw_commands'[k]) /\ Unwrap(draw_commands'[k]).tag = "Primitive") =>
                Unwrap(draw_commands'[k]).prim.id \notin ReturnedIds(returned')]_vars

\* A shape was started and finished after a drain that returned another one.
C27_Witness ==
    /\ drained
    /\ last_op.name = "finish_drawing"
    /\ ReturnedIds(returned) = {1}
    /\ \E k \in 1..Len(draw_commands) :
         /\ IsSome(draw_commands[k])
         /\ Unwrap(draw_commands[k]).tag = "Primitive"
         /\ Unwrap(draw_commands[k]).prim.id = 2

\* The borrow flag of a cell after a call has gone through these events.
RECURSIVE RefCell_flag(_, _)
RefCell_flag(events, cell) ==
    IF events = <<>>
    THEN 0
    ELSE LET e == events[Len(events)]
             before == RefCell_flag(SubSeq(events, 1, Len(events) - 1), cell)
         IN  IF e.cell # cell
             THEN before
             ELSE CASE e.op = "borrow" -> before + 1
                    [] e.op = "borrow_mut" -> -1
                    [] e.op = "drop_Ref" -> before - 1
                    [] e.op = "drop_RefMut" -> 0
\* The points inside a call at which the state is not mutably borrowed.
Released(events) ==
    {k \in 1..(Len(events) - 1) : RefCell_flag(SubSeq(events, 1, k), "state") # -1}

\* C28 as stated: reset() and drain_commands() each hold the mutable borrow of
\* the state from their first step to their last.
C28_HeldThroughout ==
    /\ last_op.name = "reset" => Released(Borrows_reset) = {}
    /\ last_op.name = "drain_commands" => Released(Borrows_drain_commands) = {}

\* C28, amended: reset() holds one mutable borrow of the state throughout;
\* drain_commands() takes two, one to finalize and one to swap, and lets go
\* of the state once, between them, where its next step is the second
\* borrow; neither panics, and what drain_commands() returns and leaves
\* behind is the flush of the state it was called on, swapped out.
C28_Borrows ==
    /\ ~panicked
    /\ last_op.name = "reset" => Released(Borrows_reset) = {}
    /\ last_op.name = "drain_commands" =>
          /\ Released(Borrows_drain_commands) = {Len(Borrows_finish_remaining_drawings)}
          /\ \A k \in Released(Borrows_drain_commands) :
                /\ RefCell_flag(SubSeq(Borrows_drain_commands, 1, k), "state") = 0
                /\ Borrows_drain_commands[k + 1] = borrow_mut("state")
C28_Step ==
    last_op'.name = "drain_commands" =>
      /\ draw_commands' = <<>>
      /\ drawing' = EmptyMap
      /\ \E order \in Orders(DOMAIN drawing) :
            returned' = filter_map(
                State_finish_remaining_drawings(draw_commands, drawing, order).draw_commands)
C28_TwoBorrows == []C28_Borrows /\ [][C28_Step]_vars

\* drain_commands() finalized a pending shape and handed the buffer over.
C28_Witness ==
    /\ last_op.name = "drain_commands"
    /\ last_op.pending # {}
    /\ PrimIds(returned) # {}
    /\ draw_commands = <<>>
    /\ ~panicked

\* C29: an entry of draw_commands that holds Some(Primitive(p)) stays where
\* it is and as it is through every step that is not a drain_commands() or a
\* reset(): a(), finish_drawing(j) for every j and
\* finish_remaining_drawings() leave it alone.
C29_FinalizedStays ==
    [][last_op'.name \notin {"drain_commands", "reset"} =>
         \A k \in 1..Len(draw_commands) :
           (IsSome(draw_commands[k]) /\ Unwrap(draw_commands[k]).tag = "Primitive") =>
             /\ k <= Len(draw_commands')
             /\ draw_commands'[k] = draw_commands[k]]_vars

\* A shape was finalized by hand; later another one was started behind it,
\* and a flush finalized that one too.
C29_Witness ==
    /\ last_op.name = "finish_remaining_drawings"
    /\ last_op.pending # {}
    /\ \E k \in ShapeSlots :
         /\ k - 1 \notin last_op.pending
         /\ IsSome(draw_commands[k])
         /\ \E j \in last_op.pending : j + 1 > k /\ IsSome(draw_commands[j + 1])

\* The points that place an element in the document.
SvgPoints(el) ==
    CASE el.tag = "ellipse" -> <<<<el.cx, el.cy>>>>
      [] el.tag = "line" -> <<<<el.x1, el.y1>>, <<el.x2, el.y2>>>>
      [] el.tag = "rect" -> <<<<el.x, el.y>>>>
      [] el.tag = "path" -> el.d
\* The context transforms m and n are translations of one another.
DifferByTranslation(m, n) ==
    \A i \in 1..3, j \in 1..3 : m[i][j] = n[i][j]

\* C30: two elements of one document made from the same kind of primitive
\* (Ellipse, Line, Quad or Rect) under context transforms that differ by a
\* translation (dx, dy) lie (dx, -dy) apart, point by point.
C30_Positioned ==
    \A i, j \in 1..Len(document) :
      LET el == document[i]
          fl == document[j]
      IN  (/\ el.tag \in {"ellipse", "line", "rect", "path"}
           /\ fl.tag = el.tag
           /\ DifferByTranslation(el.ctx.transform, fl.ctx.transform)) =>
            LET dx == el.ctx.transform[1][4] - fl.ctx.transform[1][4]
                dy == el.ctx.transform[2][4] - fl.ctx.transform[2][4]
                ps == SvgPoints(el)
                qs == SvgPoints(fl)
            IN  \A k \in 1..Len(ps) :
                  /\ ps[k][1] - qs[k][1] = dx
                  /\ ps[k][2] - qs[k][2] = -dy

\* The shapes that are inherently 2D and were given a z dimension.
HasDepth(prim) ==
    prim.kind \in {"Ellipse", "Rect", "Quad"} /\ IsSome(prim.dimensions.z)
\* The elements of the document made from this primitive.
ElementsOf(id) ==
    {k \in 1..Len(document) : document[k].tag # "background" /\ document[k].id = id}

\* C31: a replay, into the mesh or into SVG, of a sequence that holds an
\* Ellipse, a Rect or a Quad with its z dimension set aborts, and nothing is
\* appended for that shape: the mesh log stops before it and the document has
\* no element of it.
C31_DepthAborts ==
    \A k \in PrimIds(returned) :
      HasDepth(returned[k].prim) =>
        /\ last_op.name = "to_frame" =>
              /\ panicked
              /\ Len(mesh_log) < Cardinality({j \in PrimIds(returned) : j <= k})
        /\ last_op.name = "to_svg" =>
              /\ panicked
              /\ ElementsOf(returned[k].prim.id) = {}

\* An Ellipse whose width and height are both zero.
ZeroRadius(prim) ==
    /\ prim.kind = "Ellipse"
    /\ abs(unwrap_or(prim.dimensions.x, 100)) = 0
    /\ abs(unwrap_or(prim.dimensions.y, 100)) = 0

C33_ReplayFidelity ==
    [][last_op'.name = "to_svg" =>
         \A e \in 1..Len(document') :
           document'[e].tag # "background" =>
             document'[e].ctx = SvgRenderContext(origin[document'[e].id])]_vars

\* The indices a() returned in the session that the last drain ended: the
\* drained sequence has no holes, so the command at position k had index
\* k - 1.
DrainedIndices == {k - 1 : k \in PrimIds(returned)}

\* C34: finish_drawing(i) with an index i that a() returned before the last
\* drain finalizes nothing that was started after it: it leaves the pending
\* map and the buffer as they are.
C34_IndexBound ==
    [][(last_op'.name = "finish_drawing" /\ last_op'.index \in DrainedIndices) =>
           UNCHANGED <<drawing, draw_commands>>]_vars

\* C35: a primitive that a reset() removed is gone for good: it is neither
\* pending nor in the buffer, it was never yielded by a drain and is not in
\* the sequence the last drain returned; and a finish_drawing with an index
\* at which nothing is pending changes neither the pending map nor the
\* buffer.
C35_Gone ==
    \A id \in discarded :
      /\ id \notin IdsInBuffer
      /\ delivered[id] = 0
      /\ id \notin ReturnedIds(returned)
C35_StaleFinish ==
    (last_op'.name = "finish_drawing" /\ last_op'.index \notin DOMAIN drawing) =>
      UNCHANGED <<drawing, draw_commands>>
C35_ResetDiscards == []C35_Gone /\ [][C35_StaleFinish]_vars

\* Primitive 1 was started at index 1 and reset away; primitive 2 was
\* started and drained; then finish_drawing(1) found nothing pending.
C35_Witness ==
    /\ 1 \in discarded
    /\ drained
    /\ ReturnedIds(returned) = {2}
    /\ last_op.name = "finish_drawing"
    /\ last_op.index = 1
    /\ last_op.pending = {}
    /\ draw_commands = <<>>

\* C36: until a session is drained, a buffer that is not empty starts with a
\* ContextChange; and always, a ContextChange is followed at once by a
\* primitive slot: it is never the last entry and never next to another
\* ContextChange.
C36_BufferShape ==
    /\ (~drained /\ draw_commands # <<>>) => IsContextSlot(1)
    /\ \A k \in 1..Len(draw_commands) :
          IsContextSlot(k) =>
            /\ k < Len(draw_commands)
            /\ ~IsContextSlot(k + 1)

\* Two shapes through handles of different Contexts, the first through the
\* root with the default Context: each has its ContextChange before it.
C36_Witness ==
    /\ ~drained
    /\ Len(draw_commands) = 4
    /\ IsContextSlot(1)
    /\ Unwrap(draw_commands[1]).ctx = Context_default
    /\ ~IsContextSlot(2)
    /\ IsContextSlot(3)
    /\ ~IsContextSlot(4)

\* The ContextChange slots of the buffer.
ContextSlots == {k \in 1..Len(draw_commands) : IsContextSlot(k)}

\* C37: drain_commands() leaves last_draw_context, background_color and the
\* scratch buffers as they were.  last_draw_context is None at creation and
\* after reset(), is changed by no call but a() and reset(), and after each
\* a() is Some of the Context of the last ContextChange appended: the one
\* this a() pushed or, when it pushed none, the one recorded before.
C37_DrainFrame ==
    last_op'.name = "drain_commands" =>
      UNCHANGED <<last_draw_context, background_color, intermediary_state, handles>>
C37_Tracking ==
    /\ last_op'.name = "reset" => last_draw_context' = NoneV
    /\ last_op'.name \notin {"a", "reset"} => last_draw_context' = last_draw_context
    /\ last_op'.name = "a" =>
          LET n == Len(draw_commands)
          IN  IF Len(draw_commands') = n + 2
              THEN last_draw_context' = Some(Unwrap(draw_commands'[n + 1]).ctx)
              ELSE IsSome(last_draw_context) /\ last_draw_context' = last_draw_context
C37_Recorded ==
    /\ started = 0 => last_draw_context = NoneV
    /\ \A k \in ContextSlots :
          (\A j \in ContextSlots : j <= k) =>
            last_draw_context = Some(Unwrap(draw_commands[k]).ctx)
C37_DrainKeepsContext ==
    [][C37_DrainFrame]_vars /\ [][C37_Tracking]_vars /\ []C37_Recorded

\* A drain that returned a primitive left the recorded Context, the
\* background colour and a used text buffer in place.
C37_Witness ==
    /\ last_op.name = "drain_commands"
    /\ PrimIds(returned) # {}
    /\ IsSome(last_draw_context)
    /\ Unwrap(last_draw_context) # Context_default
    /\ IsSome(background_color)
    /\ intermediary_state.text_buffer # <<>>
    /\ draw_commands = <<>>

\* The indices whose slot is None.
NoneIndices == {k - 1 : k \in {j \in 1..Len(draw_commands) : draw_commands[j] = NoneV}}

\* C38: the keys of the drawing map are exactly the indices whose slot is
\* None, all of them below the length of draw_commands; so whenever a
\* pending primitive is taken out of the map, insert_draw_command finds its
\* slot and the primitive is in it afterwards.
C38_Keys ==
    /\ DOMAIN drawing = NoneIndices
    /\ \A i \in DOMAIN drawing : i < Len(draw_commands)
C38_Inserted ==
    last_op'.name \in {"finish_drawing", "finish_remaining_drawings"} =>
      \A i \in DOMAIN drawing \ DOMAIN drawing' :
        /\ i + 1 <= Len(draw_commands')
        /\ draw_commands'[i + 1] = Some(DrawCommand_Primitive(drawing[i]))
C38_KeysAreNoneSlots == []C38_Keys /\ [][C38_Inserted]_vars

\* Of two shapes behind their ContextChanges the first was finished by
\* hand: its slot is filled, the other slot is None and its index the one key.
C38_Witness ==
    /\ last_op.name = "finish_drawing"
    /\ last_op.index = 1
    /\ last_op.pending = {1, 3}
    /\ DOMAIN drawing = {3}
    /\ Len(draw_commands) = 4
    /\ IsSome(draw_commands[2])
    /\ draw_commands[4] = NoneV

\* C39: in every state the flush gives the same pending map and the same
\* buffer for every order in which the drawing map is drained, and a
\* finish_remaining_drawings() step ends in that state.
C39_AnyOrder ==
    \A o1, o2 \in Orders(DOMAIN drawing) :
      State_finish_remaining_drawings(draw_commands, drawing, o1)
        = State_finish_remaining_drawings(draw_commands, drawing, o2)
C39_Step ==
    last_op'.name = "finish_remaining_drawings" =>
      \A order \in Orders(DOMAIN drawing) :
        LET st == State_finish_remaining_drawings(draw_commands, drawing, order)
        IN  draw_commands' = st.draw_commands /\ drawing' = st.drawing
C39_OrderIndependent == []C39_AnyOrder /\ [][C39_Step]_vars

\* A flush finalized two pending primitives, which it can take in two
\* orders.
C39_Witness ==
    /\ last_op.name = "finish_remaining_drawings"
    /\ Cardinality(last_op.pending) = 2
    /\ drawing = EmptyMap
    /\ Cardinality(PrimIds(filter_map(draw_commands))) = 2

====
